---- MODULE Spec2Model ----
(***************************************************************************)
(* Marketing Funnel Impact Analyzer (streamlit_app.py).                    *)
(*                                                                         *)
(* One script run: the three uploader values are the input, the script     *)
(* reads them, finds and parses the date columns, prefixes and merges the  *)
(* three tables on Date, derives the funnel metrics and renders the page.  *)
(*                                                                         *)
(* Strings are sequences of one-character strings, so that lower(),        *)
(* strip(), startswith() and the `in` test are computed as Python does.    *)
(* A cell is a pair <<num, den>>: a number num/den in lowest terms with    *)
(* den > 0, NaN / NaT as <<0,0>> and +inf as <<1,0>>.                      *)
(***************************************************************************)
EXTENDS Integers, Sequences, FiniteSets, TLC

VARIABLES
    ios_file, android_file, spend_file,   \* the three st.file_uploader values
    fault,                                \* the call of this run that raises, or NoFault
    pc,                                   \* position of the script run
    ios_df, android_df, spend_df,         \* the three DataFrames
    ios_date_col, android_date_col, spend_date_col,  \* the detected date columns
    combined_df,                          \* the merged DataFrame
    best_cpi_date, best_cpi_val,          \* the best-CPI insight
    best_conv_date, best_conv_val,        \* the best-conversion insight
    page                                  \* elements rendered so far, in order

vars == <<ios_file, android_file, spend_file, fault, pc, ios_df, android_df,
          spend_df, ios_date_col, android_date_col, spend_date_col, combined_df,
          best_cpi_date, best_cpi_val, best_conv_date,
          best_conv_val, page>>

-----------------------------------------------------------------------------
(* Bounds of the model *)

MaxVal == 1     \* metric and spend cells range over 0..MaxVal
MaxRows == 2    \* rows of an uploaded table
MaxTs == 2      \* parseable date cells are the timestamps 0..MaxTs

DayLen == 2     \* timestamps per calendar day; a timestamp t is at midnight iff t % DayLen = 0

-----------------------------------------------------------------------------
(* Python str *)

UpperCase == <<"A","B","C","D","E","F","G","H","I","J","K","L","M",
               "N","O","P","Q","R","S","T","U","V","W","X","Y","Z">>
LowerCase == <<"a","b","c","d","e","f","g","h","i","j","k","l","m",
               "n","o","p","q","r","s","t","u","v","w","x","y","z">>

\* the characters of the names in use
Chars == {UpperCase[i] : i \in 1..26} \cup {LowerCase[i] : i \in 1..26}
         \cup {" ", "_", "-", "."}

\* c.lower() of one character
LowerChar == [c \in Chars |->
                IF \E i \in 1..26 : UpperCase[i] = c
                THEN LowerCase[CHOOSE i \in 1..26 : UpperCase[i] = c]
                ELSE c]

\* str.lower()
lower(s) == [i \in 1..Len(s) |-> LowerChar[s[i]]]

\* sub in s
contains(sub, s) ==
    \E i \in 0..(Len(s) - Len(sub)) : SubSeq(s, i + 1, i + Len(sub)) = sub

\* s.startswith(p)
startswith(s, p) == Len(s) >= Len(p) /\ SubSeq(s, 1, Len(p)) = p

RECURSIVE lstrip(_)
lstrip(s) == IF s # <<>> /\ Head(s) = " " THEN lstrip(Tail(s)) ELSE s

RECURSIVE rstrip(_)
rstrip(s) ==
    IF s # <<>> /\ s[Len(s)] = " " THEN rstrip(SubSeq(s, 1, Len(s) - 1)) ELSE s

\* str.strip()
strip(s) == rstrip(lstrip(s))

-----------------------------------------------------------------------------
(* Numbers: float cells as fractions *)

NaN == <<0, 0>>
Inf == <<1, 0>>
Num(n) == <<n, 1>>

isna(c) == c = NaN

RECURSIVE Gcd(_, _)
Gcd(a, b) == IF b = 0 THEN a ELSE Gcd(b, a % b)

\* num/den in lowest terms, den > 0 and num >= 0
Frac(n, d) == LET g == Gcd(n, d) IN <<n \div g, d \div g>>

\* a + b of two cells; NaN propagates
FloatAdd(a, b) ==
    IF isna(a) \/ isna(b) THEN NaN
    ELSE IF a[2] = 0 \/ b[2] = 0 THEN Inf
    ELSE Frac(a[1] * b[2] + b[1] * a[2], a[2] * b[2])

\* a / b of two columns' cells as numpy divides: x/0 is inf, 0/0 is nan, no exception
FloatDiv(a, b) ==
    IF isna(a) \/ isna(b) THEN NaN
    ELSE IF b[1] = 0 THEN (IF a[1] = 0 THEN NaN ELSE Inf)
    ELSE IF a[2] = 0 THEN Inf
    ELSE Frac(a[1] * b[2], a[2] * b[1])

\* a * k for an integer k >= 0
FloatMul(a, k) ==
    IF isna(a) THEN NaN
    ELSE IF a[2] = 0 THEN (IF k = 0 THEN NaN ELSE Inf)
    ELSE Frac(a[1] * k, a[2])

\* a > 0
FloatPos(a) == ~isna(a) /\ a[1] > 0

\* a < b, both finite
FloatLess(a, b) == a[1] * b[2] < b[1] * a[2]

-----------------------------------------------------------------------------
(* String literals of the script *)

S_Date == <<"D","a","t","e">>
S_date == <<"d","a","t","e">>
S_ios_ == <<"i","o","s","_">>
S_android_ == <<"a","n","d","r","o","i","d","_">>
S_ios == <<"i","o","s">>
S_android == <<"a","n","d","r","o","i","d">>
S_ios_Date == <<"i","o","s","_","D","a","t","e">>
S_android_Date == <<"a","n","d","r","o","i","d","_","D","a","t","e">>
S_install == <<"i","n","s","t","a","l","l">>
S_kyc == <<"k","y","c">>
S_otp == <<"o","t","p">>
S_Spends == <<"S","p","e","n","d","s">>
SpendKeywords == { <<"s","p","e","n","d">>, <<"s","p","e","n","d","s">>,
                   <<"a","m","o","u","n","t">>, <<"c","o","s","t">>,
                   <<"m","e","d","i","a">> }
S_ios_installs == <<"i","o","s","_","i","n","s","t","a","l","l","s">>
S_android_installs == <<"a","n","d","r","o","i","d","_","i","n","s","t","a","l","l","s">>
S_ios_kyc == <<"i","o","s","_","k","y","c">>
S_android_kyc == <<"a","n","d","r","o","i","d","_","k","y","c">>
S_ios_otp == <<"i","o","s","_","o","t","p">>
S_android_otp == <<"a","n","d","r","o","i","d","_","o","t","p">>
S_total_installs == <<"t","o","t","a","l","_","i","n","s","t","a","l","l","s">>
S_total_kyc == <<"t","o","t","a","l","_","k","y","c">>
S_total_otp == <<"t","o","t","a","l","_","o","t","p">>
S_install_to_kyc == <<"i","n","s","t","a","l","l","_","t","o","_","k","y","c">>
S_install_to_otp == <<"i","n","s","t","a","l","l","_","t","o","_","o","t","p">>
S_kyc_to_otp == <<"k","y","c","_","t","o","_","o","t","p">>
S_cpi == <<"c","p","i">>
S_x == <<"_","x">>
S_y == <<"_","y">>

-----------------------------------------------------------------------------
(* pandas DataFrame: [columns |-> sequence of names, rows |-> sequence of   *)
(* rows, each a sequence of cells aligned with columns]                     *)

EmptyDf == [columns |-> <<>>, rows |-> <<>>]

\* Python None, as a column name and as a DataFrame
None == <<"None">>
NoneDf == [columns |-> None, rows |-> None]

\* a text cell of a CSV date column: Text(t) with t >= 0 reads as timestamp t,
\* Text(-1) is text that is no date
Text(code) == <<code, -1>>

RangeOf(s) == {s[i] : i \in 1..Len(s)}

HasCol(df, name) == name \in RangeOf(df.columns)

\* position of the column called name
ColIdx(df, name) == CHOOSE i \in 1..Len(df.columns) : df.columns[i] = name

\* df[name]
Series(df, name) == [r \in 1..Len(df.rows) |-> df.rows[r][ColIdx(df, name)]]

\* df[name] = series: replaces the column when it exists, appends it otherwise
SetCol(df, name, series) ==
    IF HasCol(df, name)
    THEN [df EXCEPT !.rows =
            [r \in 1..Len(df.rows) |->
                [df.rows[r] EXCEPT ![ColIdx(df, name)] = series[r]]]]
    ELSE [columns |-> Append(df.columns, name),
          rows |-> [r \in 1..Len(df.rows) |-> Append(df.rows[r], series[r])]]

\* df.rename(columns={old: new})
Rename(df, old, new) ==
    [df EXCEPT !.columns =
        [i \in 1..Len(df.columns) |-> IF df.columns[i] = old THEN new ELSE df.columns[i]]]

\* df.add_prefix(p)
AddPrefix(df, p) ==
    [df EXCEPT !.columns = [i \in 1..Len(df.columns) |-> p \o df.columns[i]]]

\* the rows whose cell in column col is not NaN / NaT, in order
RECURSIVE SelectRows(_, _, _)
SelectRows(df, rows, col) ==
    IF rows = <<>> THEN <<>>
    ELSE IF isna(Head(rows)[ColIdx(df, col)])
         THEN SelectRows(df, Tail(rows), col)
         ELSE <<Head(rows)>> \o SelectRows(df, Tail(rows), col)

\* df.dropna(subset=[col])
DropNa(df, col) == [df EXCEPT !.rows = SelectRows(df, df.rows, col)]

\* df.fillna(0)
FillNa(df) ==
    [df EXCEPT !.rows =
        [r \in 1..Len(df.rows) |->
            [i \in 1..Len(df.columns) |->
                IF isna(df.rows[r][i]) THEN Num(0) ELSE df.rows[r][i]]]]

\* pd.Series(0, index=df.index)
ZeroSeries(df) == [r \in 1..Len(df.rows) |-> Num(0)]

RECURSIVE SumCells(_, _)
SumCells(row, idxs) ==
    IF idxs = {} THEN Num(0)
    ELSE LET i == CHOOSE j \in idxs : TRUE
         IN  IF isna(row[i]) THEN SumCells(row, idxs \ {i})
             ELSE FloatAdd(row[i], SumCells(row, idxs \ {i}))

\* df[cols].sum(axis=1), cols given as the set of their positions (NaN skipped)
SumAxis1(df, idxs) == [r \in 1..Len(df.rows) |-> SumCells(df.rows[r], idxs)]

\* Series.sum()
RECURSIVE SeriesSum(_)
SeriesSum(s) ==
    IF s = <<>> THEN Num(0)
    ELSE IF isna(Head(s)) THEN SeriesSum(Tail(s))
    ELSE FloatAdd(Head(s), SeriesSum(Tail(s)))

-----------------------------------------------------------------------------
(* The script's helpers and the pandas calls it makes *)

\* safe_read_csv: pd.read_csv, then the column names stripped
safe_read_csv(f) ==
    [columns |-> [i \in 1..Len(f.columns) |-> strip(f.columns[i])],
     rows |-> f.rows]

\* pd.to_datetime(cell, errors='coerce'): text that is a date becomes its
\* timestamp, any other text NaT; a datetime stays what it is
to_datetime(c) ==
    IF c[2] = -1 THEN (IF c[1] >= 0 THEN Num(c[1]) ELSE NaN) ELSE c

\* .dt.normalize(): the timestamp's midnight
normalize(c) == IF isna(c) THEN c ELSE Num(c[1] - (c[1] % DayLen))

\* [c for c in df.columns if 'date' in c.lower()], as positions
possible_date_cols(df) ==
    {i \in 1..Len(df.columns) : contains(S_date, lower(df.columns[i]))}

Min(S) == CHOOSE x \in S : \A y \in S : x <= y

\* df[col] = f(df[col]) for the column at position i
MapCol(df, i, f(_)) ==
    [df EXCEPT !.rows =
        [r \in 1..Len(df.rows) |-> [df.rows[r] EXCEPT ![i] = f(df.rows[r][i])]]]

\* mutant of parse_date_col: the first column taken when no name contains 'date'
parse_date_col_FirstColumn(df) ==
    IF possible_date_cols(df) = {}
    THEN <<df.columns[1], MapCol(df, 1, to_datetime)>>
    ELSE <<df.columns[Min(possible_date_cols(df))],
           MapCol(df, Min(possible_date_cols(df)), to_datetime)>>

\* parse_date_col: <<col, df>>, or <<None, None>> without a date-like column
parse_date_col(df) ==
    IF possible_date_cols(df) = {} THEN <<None, NoneDf>>
    ELSE LET i == Min(possible_date_cols(df))
         IN  <<df.columns[i], MapCol(df, i, to_datetime)>>

\* spend_col_candidates, as positions
spend_col_candidates(df) ==
    {i \in 1..Len(df.columns) :
        \E k \in SpendKeywords : contains(k, lower(df.columns[i]))}

\* the spend column renamed to 'Spends', or a 'Spends' column of zeros created
NormalizeSpendCol(df) ==
    IF spend_col_candidates(df) # {}
    THEN Rename(df, df.columns[Min(spend_col_candidates(df))], S_Spends)
    ELSE SetCol(df, S_Spends, ZeroSeries(df))

\* df['Date'] = pd.to_datetime(df['Date']).dt.normalize()
NormalizeDate(df) ==
    MapCol(df, ColIdx(df, S_Date), LAMBDA c : normalize(to_datetime(c)))

DropAt(s, i) == SubSeq(s, 1, i - 1) \o SubSeq(s, i + 1, Len(s))

RECURSIVE SortedSeq(_)
SortedSeq(S) ==
    IF S = {} THEN <<>> ELSE <<Min(S)>> \o SortedSeq(S \ {Min(S)})

RECURSIVE Flatten(_)
Flatten(ss) == IF ss = <<>> THEN <<>> ELSE Head(ss) \o Flatten(Tail(ss))

\* the Date cells of df, as timestamps
DateKeys(df) ==
    {df.rows[r][ColIdx(df, S_Date)][1] : r \in 1..Len(df.rows)}

\* the rows of an outer merge for one key: every left row with the key paired
\* with every right row with it; NaN cells for the side that has no such row
MergeKeyRows(left, right, k) ==
    LET li == ColIdx(left, S_Date)
        ri == ColIdx(right, S_Date)
        L  == SelectSeq(left.rows, LAMBDA row : row[li] = Num(k))
        R  == SelectSeq(right.rows, LAMBDA row : row[ri] = Num(k))
        nanL == [i \in 1..Len(left.columns) |-> IF i = li THEN Num(k) ELSE NaN]
        nanR == [i \in 1..(Len(right.columns) - 1) |-> NaN]
    IN  IF R = <<>> THEN [a \in 1..Len(L) |-> L[a] \o nanR]
        ELSE IF L = <<>> THEN [b \in 1..Len(R) |-> nanL \o DropAt(R[b], ri)]
        ELSE Flatten([a \in 1..Len(L) |->
                        [b \in 1..Len(R) |-> L[a] \o DropAt(R[b], ri)]])

\* pd.merge(left, right, on='Date', how='outer'): keys in sorted order, and
\* a name both sides have (other than Date) suffixed _x on the left, _y on the right
Merge(left, right) ==
    LET ri == ColIdx(right, S_Date)
        both == (RangeOf(left.columns) \cap RangeOf(right.columns)) \ {S_Date}
        lcols == [i \in 1..Len(left.columns) |->
                    IF left.columns[i] \in both THEN left.columns[i] \o S_x
                    ELSE left.columns[i]]
        rcols == [i \in 1..Len(right.columns) |->
                    IF right.columns[i] \in both THEN right.columns[i] \o S_y
                    ELSE right.columns[i]]
        keys == SortedSeq(DateKeys(left) \cup DateKeys(right))
    IN  [columns |-> lcols \o DropAt(rcols, ri),
         rows |-> Flatten([j \in 1..Len(keys) |-> MergeKeyRows(left, right, keys[j])])]

\* the rows in ascending order of column col, equal keys keeping their order
RECURSIVE InsertSorted(_, _, _)
InsertSorted(sorted, row, i) ==
    IF sorted = <<>> THEN <<row>>
    ELSE IF FloatLess(row[i], Head(sorted)[i])
         THEN <<row>> \o sorted
         ELSE <<Head(sorted)>> \o InsertSorted(Tail(sorted), row, i)

RECURSIVE SortRows(_, _)
SortRows(rows, i) ==
    IF rows = <<>> THEN <<>>
    ELSE InsertSorted(SortRows(SubSeq(rows, 1, Len(rows) - 1), i), rows[Len(rows)], i)

\* df.sort_values(col).reset_index(drop=True)
sort_values(df, col) == [df EXCEPT !.rows = SortRows(df.rows, ColIdx(df, col))]

-----------------------------------------------------------------------------
(* Metric derivation, lines 94-137 *)

\* df[cols].sum(axis=1) if cols else pd.Series(0, index=df.index)
SumOrZero(df, cols) == IF cols = {} THEN ZeroSeries(df) ELSE SumAxis1(df, cols)

\* sum_cols_by_regex(df, pattern)
sum_cols_by_regex(df, pattern) ==
    SumOrZero(df, {i \in 1..Len(df.columns) :
                      contains(lower(pattern), lower(df.columns[i]))})

\* the columns the matcher of lines 104-111 selects, as positions
MatchedCols(df, platform, metric) ==
    {i \in 1..Len(df.columns) :
        /\ startswith(lower(df.columns[i]), platform)
        /\ contains(metric, lower(df.columns[i]))}

\* the right-hand side of lines 104-111
PlatformMetric(df, platform, metric) ==
    SumOrZero(df, MatchedCols(df, platform, metric))

\* series * 0
TimesZero(s) == [r \in 1..Len(s) |-> FloatMul(s[r], 0)]

\* line 102: combined_df['ios_installs'] = sum_cols_by_regex(combined_df, 'ios') * 0
Placeholder(df) == SetCol(df, S_ios_installs, TimesZero(sum_cols_by_regex(df, S_ios)))

\* one of lines 104-111: combined_df[name] = the sum of the matched columns
AssignMetric(df, name, platform, metric) ==
    SetCol(df, name, PlatformMetric(df, platform, metric))

\* a + b of two columns
SeriesAdd(a, b) == [r \in 1..Len(a) |-> FloatAdd(a[r], b[r])]

\* one of lines 114-116: combined_df[name] = combined_df[a] + combined_df[b]
AssignTotal(df, name, a, b) ==
    SetCol(df, name, SeriesAdd(Series(df, a), Series(df, b)))

\* lines 102-111, assigned in the script's order
DerivePlatforms(df) ==
    AssignMetric(
     AssignMetric(
      AssignMetric(
       AssignMetric(
        AssignMetric(
         AssignMetric(Placeholder(df), S_ios_installs, S_ios, S_install),
         S_android_installs, S_android, S_install),
        S_ios_kyc, S_ios, S_kyc),
       S_android_kyc, S_android, S_kyc),
      S_ios_otp, S_ios, S_otp),
     S_android_otp, S_android, S_otp)

\* lines 114-116
DeriveTotals(df) ==
    AssignTotal(
     AssignTotal(
      AssignTotal(df, S_total_installs, S_ios_installs, S_android_installs),
      S_total_kyc, S_ios_kyc, S_android_kyc),
     S_total_otp, S_ios_otp, S_android_otp)

\* lines 102-116: the per-platform sums and the totals
DeriveSums(df) == DeriveTotals(DerivePlatforms(df))

\* pd.to_numeric(cell, errors='coerce'), then fillna(0)
to_numeric(c) == IF c[2] = -1 \/ isna(c) THEN Num(0) ELSE c

\* lines 119-120
EnsureSpends(df) ==
    IF HasCol(df, S_Spends) THEN df ELSE SetCol(df, S_Spends, ZeroSeries(df))

\* lines 118-121
SpendsNumeric(df) == MapCol(EnsureSpends(df), ColIdx(EnsureSpends(df), S_Spends), to_numeric)

\* np.where(den > 0, num / den * 100, 0): numpy computes the quotient of
\* every row (inf or nan where den is 0, no exception) and then selects
PctSeries(num, den) ==
    [r \in 1..Len(num) |->
        IF FloatPos(den[r]) THEN FloatMul(FloatDiv(num[r], den[r]), 100) ELSE Num(0)]

\* mutant of CpiSeries: a zero-install day given cpi 0 instead of NaN
CpiSeriesZero(spends, installs) ==
    [r \in 1..Len(spends) |->
        IF FloatPos(installs[r]) THEN FloatDiv(spends[r], installs[r]) ELSE Num(0)]

\* np.where(total_installs > 0, Spends / total_installs, np.nan)
CpiSeries(spends, installs) ==
    [r \in 1..Len(spends) |->
        IF FloatPos(installs[r]) THEN FloatDiv(spends[r], installs[r]) ELSE NaN]

\* one of lines 124-132
AssignPct(df, name, num, den) ==
    SetCol(df, name, PctSeries(Series(df, num), Series(df, den)))

\* lines 135-137
AssignCpi(df) ==
    SetCol(df, S_cpi, CpiSeries(Series(df, S_Spends), Series(df, S_total_installs)))

\* lines 123-137
DeriveRates(df) ==
    AssignCpi(
     AssignPct(
      AssignPct(
       AssignPct(df, S_install_to_kyc, S_total_kyc, S_total_installs),
       S_install_to_otp, S_total_otp, S_total_installs),
      S_kyc_to_otp, S_total_otp, S_total_kyc))

\* lines 102-137
DeriveMetrics(df) == DeriveRates(SpendsNumeric(DeriveSums(df)))

-----------------------------------------------------------------------------
(* Insights, lines 261-283 *)

\* Series.dropna(), as the set of index labels kept
NotNaIdx(s) == {r \in 1..Len(s) : ~isna(s[r])}

\* mutant of idxmin: the last label holding the minimum
idxminLast(s) ==
    CHOOSE r \in NotNaIdx(s) :
        /\ \A q \in NotNaIdx(s) : ~FloatLess(s[q], s[r])
        /\ \A q \in NotNaIdx(s) : q > r => FloatLess(s[r], s[q])

\* Series.dropna().idxmin(): the first label holding the minimum
idxmin(s) ==
    CHOOSE r \in NotNaIdx(s) :
        /\ \A q \in NotNaIdx(s) : ~FloatLess(s[q], s[r])
        /\ \A q \in NotNaIdx(s) : q < r => FloatLess(s[r], s[q])

\* Series.idxmax(): the first label holding the maximum
idxmax(s) ==
    CHOOSE r \in NotNaIdx(s) :
        /\ \A q \in NotNaIdx(s) : ~FloatLess(s[r], s[q])
        /\ \A q \in NotNaIdx(s) : q < r => FloatLess(s[q], s[r])

\* Timestamp.strftime('%Y-%m-%d'): the calendar day, the time of day dropped
strftime(c) == <<"ymd", c[1] \div DayLen>>

\* the string "N/A", which is no formatted date
NA == <<"N/A", 0>>

\* a name the run has not assigned yet
Unset == <<"unset", 0>>

\* lines 262-268: <<best_cpi_date, best_cpi_val>>
BestCpi(df) ==
    LET cpi == Series(df, S_cpi)
    IN  IF Cardinality(NotNaIdx(cpi)) > 0
        THEN <<strftime(Series(df, S_Date)[idxmin(cpi)]), cpi[idxmin(cpi)]>>
        ELSE <<NA, NaN>>

\* lines 274-280: <<best_conv_date, best_conv_val>>
BestConv(df) ==
    LET conv == Series(df, S_install_to_kyc)
    IN  IF Len(conv) > 0
        THEN <<strftime(Series(df, S_Date)[idxmax(conv)]), conv[idxmax(conv)]>>
        ELSE <<NA, NaN>>

-----------------------------------------------------------------------------
(* The page: a rendered element is [kind, label, val] *)

El(kind, label, val) == [kind |-> kind, label |-> label, val |-> val]

\* lines 10-11, rendered by every run before the uploaders
PageHead == <<El("title", "Marketing Funnel Impact Analyzer", <<>>),
              El("markdown", "Upload your iOS, Android, and Media Spend data", <<>>)>>

\* lines 301-303
UploadPrompt == <<El("info", "Please upload all three CSV files to begin analysis", <<>>),
                  El("expander", "Expected File Formats", <<>>)>>

\* line 56
MissingDateError ==
    El("error", "Couldn't find a Date column in one of the files", <<>>)

\* lines 298-299
ProcessingError == <<El("error", "Error processing files", <<>>),
                     El("info", "Please ensure your CSV files have a Date column", <<>>)>>

\* a / b if b > 0 else 0 (lines 147, 158, 161), times k
GuardedRatio(a, b, k) == IF FloatPos(b) THEN FloatMul(FloatDiv(a, b), k) ELSE Num(0)

\* lines 140-162, in rendering order
SummaryEls(df) ==
    LET total_spend == SeriesSum(Series(df, S_Spends))
        total_installs == SeriesSum(Series(df, S_total_installs))
        total_kyc == SeriesSum(Series(df, S_total_kyc))
        total_otp == SeriesSum(Series(df, S_total_otp))
    IN  <<El("markdown", "---", <<>>),
          El("header", "Key Performance Metrics", <<>>),
          El("metric", "Total Spend", total_spend),
          El("metric", "Total Installs", total_installs),
          El("metric", "Avg CPI", GuardedRatio(total_spend, total_installs, 1)),
          El("metric", "Install -> KYC", GuardedRatio(total_kyc, total_installs, 100)),
          El("metric", "Install -> OTP", GuardedRatio(total_otp, total_installs, 100))>>

\* lines 165-243, in rendering order
ChartEls ==
    <<El("markdown", "---", <<>>),
      El("header", "Impact Analysis", <<>>),
      El("plotly_chart", "Media Spend Impact on Installs", <<>>),
      El("plotly_chart", "Funnel Progression Over Time", <<>>),
      El("plotly_chart", "Conversion Rates Over Time", <<>>),
      El("markdown", "---", <<>>),
      El("header", "Platform Comparison", <<>>),
      El("plotly_chart", "Installs by Platform", <<>>),
      El("plotly_chart", "Daily Installs by Platform", <<>>),
      El("markdown", "---", <<>>),
      El("header", "Cost Efficiency", <<>>),
      El("plotly_chart", "Cost Per Install (CPI) Trend", <<>>)>>

\* lines 246-255
TableEls ==
    <<El("markdown", "---", <<>>),
      El("header", "Detailed Data", <<>>),
      El("dataframe", "display_df", <<>>)>>

\* lines 258-259
InsightHeadEls ==
    <<El("markdown", "---", <<>>),
      El("header", "Key Insights", <<>>)>>

\* Series.mean() of a column with np.inf replaced and NaN filled by 0
MeanOf(s) ==
    IF Len(s) = 0 THEN NaN
    ELSE FloatDiv(SeriesSum([r \in 1..Len(s) |->
                                IF isna(s[r]) \/ s[r][2] = 0 THEN Num(0) ELSE s[r]]),
                  Num(Len(s)))

\* lines 285-295
InsightEls(df, cpi, conv) ==
    <<El("info", "Best CPI Day", cpi),
      El("success", "Best Conversion Day", conv),
      El("warning", "Average Install -> KYC", MeanOf(Series(df, S_install_to_kyc)))>>

-----------------------------------------------------------------------------
(* Faults: the call of the run that raises an exception.  step is the step  *)
(* of the script, k the number of elements the step renders before the call *)

NoFault == [step |-> "none", k |-> 0]

Raises(step) == fault.step = step

\* mutant of Except: the page cleared of what the run rendered
ExceptClearsPage(rendered) ==
    /\ page' = PageHead \o ProcessingError
    /\ pc' = "done"

\* the except clause of lines 297-299, after the step rendered `rendered`
Except(rendered) ==
    /\ page' = page \o rendered \o ProcessingError
    /\ pc' = "done"

Insights == <<best_cpi_date, best_cpi_val, best_conv_date, best_conv_val>>
Frames == <<ios_df, android_df, spend_df>>
DateCols == <<ios_date_col, android_date_col, spend_date_col>>
Inputs == <<ios_file, android_file, spend_file, fault>>

-----------------------------------------------------------------------------
(* The script, one action per step *)

\* line 43, and the else branch of lines 300-314
Gate ==
    /\ pc = "start"
    /\ IF ios_file.present /\ android_file.present /\ spend_file.present
       THEN pc' = "read" /\ page' = page
       ELSE pc' = "done" /\ page' = page \o UploadPrompt
    /\ UNCHANGED <<Inputs, Frames, DateCols, combined_df, Insights>>

\* lines 46-48: a file that is no CSV makes pd.read_csv raise
Read ==
    /\ pc = "read"
    /\ IF Raises("read") \/ ~ios_file.readable \/ ~android_file.readable
          \/ ~spend_file.readable
       THEN Except(<<>>) /\ UNCHANGED Frames
       ELSE /\ ios_df' = safe_read_csv(ios_file)
            /\ android_df' = safe_read_csv(android_file)
            /\ spend_df' = safe_read_csv(spend_file)
            /\ pc' = "parse"
            /\ page' = page
    /\ UNCHANGED <<Inputs, DateCols, combined_df, Insights>>

\* lines 51-57: st.stop() ends the run; it is no Exception, so the except
\* clause of line 297 does not see it
ParseDates ==
    /\ pc = "parse"
    /\ IF Raises("parse")
       THEN Except(<<>>) /\ UNCHANGED <<Frames, DateCols>>
       ELSE /\ ios_date_col' = parse_date_col(ios_df)[1]
            /\ ios_df' = parse_date_col(ios_df)[2]
            /\ android_date_col' = parse_date_col(android_df)[1]
            /\ android_df' = parse_date_col(android_df)[2]
            /\ spend_date_col' = parse_date_col(spend_df)[1]
            /\ spend_df' = parse_date_col(spend_df)[2]
            /\ IF ios_date_col' = None \/ android_date_col' = None
                  \/ spend_date_col' = None
               THEN page' = Append(page, MissingDateError) /\ pc' = "stopped"
               ELSE page' = page /\ pc' = "normalize"
    /\ UNCHANGED <<Inputs, combined_df, Insights>>

\* lines 60-84: rename to Date, drop invalid dates, prefix, spend column, round to day
PrepareIos(df, col) ==
    NormalizeDate(Rename(AddPrefix(DropNa(Rename(df, col, S_Date), S_Date), S_ios_),
                         S_ios_Date, S_Date))

PrepareAndroid(df, col) ==
    NormalizeDate(Rename(AddPrefix(DropNa(Rename(df, col, S_Date), S_Date), S_android_),
                         S_android_Date, S_Date))

PrepareSpend(df, col) ==
    NormalizeDate(NormalizeSpendCol(DropNa(Rename(df, col, S_Date), S_Date)))

Normalize ==
    /\ pc = "normalize"
    /\ IF Raises("normalize")
       THEN Except(<<>>) /\ UNCHANGED Frames
       ELSE /\ ios_df' = PrepareIos(ios_df, ios_date_col)
            /\ android_df' = PrepareAndroid(android_df, android_date_col)
            /\ spend_df' = PrepareSpend(spend_df, spend_date_col)
            /\ pc' = "merge"
            /\ page' = page
    /\ UNCHANGED <<Inputs, DateCols, combined_df, Insights>>

\* lines 87-92
MergeAll(ios, android, spend) ==
    FillNa(sort_values(Merge(Merge(ios, android), spend), S_Date))

MergeStep ==
    /\ pc = "merge"
    /\ IF Raises("merge")
       THEN Except(<<>>) /\ UNCHANGED combined_df
       ELSE /\ combined_df' = MergeAll(ios_df, android_df, spend_df)
            /\ pc' = "derive"
            /\ page' = page
    /\ UNCHANGED <<Inputs, Frames, DateCols, Insights>>

\* lines 94-137
Derive ==
    /\ pc = "derive"
    /\ IF Raises("derive")
       THEN Except(<<>>) /\ UNCHANGED combined_df
       ELSE /\ combined_df' = DeriveMetrics(combined_df)
            /\ pc' = "summary"
            /\ page' = page
    /\ UNCHANGED <<Inputs, Frames, DateCols, Insights>>

\* lines 140-162
RenderSummary ==
    /\ pc = "summary"
    /\ IF Raises("summary")
       THEN Except(SubSeq(SummaryEls(combined_df), 1, fault.k))
       ELSE page' = page \o SummaryEls(combined_df) /\ pc' = "charts"
    /\ UNCHANGED <<Inputs, Frames, DateCols, combined_df, Insights>>

\* lines 165-243
RenderCharts ==
    /\ pc = "charts"
    /\ IF Raises("charts")
       THEN Except(SubSeq(ChartEls, 1, fault.k))
       ELSE page' = page \o ChartEls /\ pc' = "table"
    /\ UNCHANGED <<Inputs, Frames, DateCols, combined_df, Insights>>

\* lines 246-255
RenderTable ==
    /\ pc = "table"
    /\ IF Raises("table")
       THEN Except(SubSeq(TableEls, 1, fault.k))
       ELSE page' = page \o TableEls /\ pc' = "insights"
    /\ UNCHANGED <<Inputs, Frames, DateCols, combined_df, Insights>>

\* lines 258-295: each lookup has its own try / except that yields N/A; a
\* failure of the rendering calls reaches the except clause of line 297
RenderInsights ==
    /\ pc = "insights"
    /\ LET cpi == IF Raises("best_cpi") THEN <<NA, NaN>> ELSE BestCpi(combined_df)
           conv == IF Raises("best_conv") THEN <<NA, NaN>> ELSE BestConv(combined_df)
           els == InsightHeadEls \o InsightEls(combined_df, cpi, conv)
       IN  IF Raises("insights")
           THEN /\ Except(SubSeq(els, 1, fault.k))
                /\ IF fault.k >= Len(InsightHeadEls)
                   THEN /\ best_cpi_date' = cpi[1] /\ best_cpi_val' = cpi[2]
                        /\ best_conv_date' = conv[1] /\ best_conv_val' = conv[2]
                   ELSE UNCHANGED Insights
           ELSE /\ page' = page \o els
                /\ pc' = "done"
                /\ best_cpi_date' = cpi[1] /\ best_cpi_val' = cpi[2]
                /\ best_conv_date' = conv[1] /\ best_conv_val' = conv[2]
    /\ UNCHANGED <<Inputs, Frames, DateCols, combined_df>>

Next ==
    \/ Gate
    \/ Read
    \/ ParseDates
    \/ Normalize
    \/ MergeStep
    \/ Derive
    \/ RenderSummary
    \/ RenderCharts
    \/ RenderTable
    \/ RenderInsights

-----------------------------------------------------------------------------
(* Inputs: the uploader values a run starts from *)

\* a CSV header: the column names and the position of the column holding date text
Schema(columns, datepos) == [columns |-> columns, datepos |-> datepos]

\* header: 'Date' | 'Installs'
IosPlain == Schema(<<S_Date, <<"I","n","s","t","a","l","l","s">>>>, 1)
\* header: 'Date' | 'installs' | 'kyc'
IosExample == Schema(<<S_Date, <<"i","n","s","t","a","l","l","s">>, <<"k","y","c">>>>, 1)
\* header: ' Date ' | 'App Installs' | 'Web Installs'
IosMulti == Schema(<<<<" ","D","a","t","e"," ">>, <<"A","p","p"," ","I","n","s","t","a","l","l","s">>, <<"W","e","b"," ","I","n","s","t","a","l","l","s">>>>, 1)
\* header: 'install_date' | 'Mobile OTP'
IosInstallDate == Schema(<<<<"i","n","s","t","a","l","l","_","d","a","t","e">>, <<"M","o","b","i","l","e"," ","O","T","P">>>>, 1)
\* header: 'Day' | 'Installs'
IosNoDate == Schema(<<<<"D","a","y">>, <<"I","n","s","t","a","l","l","s">>>>, 1)

\* header: 'date' | 'Installs'
AndroidPlain == Schema(<<S_date, <<"I","n","s","t","a","l","l","s">>>>, 1)
\* header: 'Date' | 'installs' | 'kyc'
AndroidExample == Schema(<<S_Date, <<"i","n","s","t","a","l","l","s">>, <<"k","y","c">>>>, 1)
\* header: 'KYC Completed' | 'Date'
AndroidKyc == Schema(<<<<"K","Y","C"," ","C","o","m","p","l","e","t","e","d">>, S_Date>>, 2)
\* header: 'Day' | 'Installs'
AndroidNoDate == Schema(<<<<"D","a","y">>, <<"I","n","s","t","a","l","l","s">>>>, 1)

\* header: 'Date' | 'spend'
SpendExample == Schema(<<S_Date, <<"s","p","e","n","d">>>>, 1)
\* header: 'Date' | 'Cost' | 'ios_install_bonus'
SpendBonus == Schema(<<S_Date, <<"C","o","s","t">>, <<"i","o","s","_","i","n","s","t","a","l","l","_","b","o","n","u","s">>>>, 1)
\* header: 'Date' | 'Clicks'
SpendNoSpendCol == Schema(<<S_Date, <<"C","l","i","c","k","s">>>>, 1)
\* header: 'Date' | 'Amount' | 'Android KYC calls'
SpendKycCalls == Schema(<<S_Date, <<"A","m","o","u","n","t">>, <<"A","n","d","r","o","i","d"," ","K","Y","C"," ","c","a","l","l","s">>>>, 1)
\* header: 'Date' | 'Cost' | 'ios_Installs'
SpendClash == Schema(<<S_Date, <<"C","o","s","t">>, <<"i","o","s","_","I","n","s","t","a","l","l","s">>>>, 1)
\* header: 'Day' | 'spend'
SpendNoDate == Schema(<<<<"D","a","y">>, <<"s","p","e","n","d">>>>, 1)

NoFile == [present |-> FALSE, readable |-> FALSE, columns |-> <<>>, rows |-> <<>>]
NotCsv == [present |-> TRUE, readable |-> FALSE, columns |-> <<>>, rows |-> <<>>]
Csv(schema, rows) ==
    [present |-> TRUE, readable |-> TRUE, columns |-> schema.columns, rows |-> rows]

\* the rows of a CSV with this header: date text in the date column, a
\* number in every other column
RECURSIVE RowsFrom(_, _, _, _)
RowsFrom(schema, i, dates, vals) ==
    IF i > Len(schema.columns) THEN {<<>>}
    ELSE LET cells == IF i = schema.datepos THEN {Text(d) : d \in dates}
                      ELSE {Num(v) : v \in vals}
         IN  {<<c>> \o rest : c \in cells, rest \in RowsFrom(schema, i + 1, dates, vals)}

\* the CSV files with this header and at most maxRows rows
Tables(schema, maxRows, dates, vals) ==
    {Csv(schema, rows) :
        rows \in UNION {[1..n -> RowsFrom(schema, 1, dates, vals)] : n \in 0..maxRows}}

TablesOver(schemas, maxRows, dates, vals) ==
    UNION {Tables(s, maxRows, dates, vals) : s \in schemas}

\* date text: -1 is no date, t >= 0 the timestamp t
RawDates == -1..MaxTs
Midnights == {t \in 0..MaxTs : t % DayLen = 0}
Vals == 0..MaxVal

DistinctDates(f, datepos) ==
    \A a, b \in 1..Len(f.rows) : a # b => f.rows[a][datepos] # f.rows[b][datepos]

\* the worked example: one row per table on the same day
ExampleIos == Csv(IosExample, <<<<Text(0), Num(100), Num(40)>>>>)
ExampleAndroid == Csv(AndroidExample, <<<<Text(0), Num(50), Num(10)>>>>)
ExampleSpend == Csv(SpendExample, <<<<Text(0), Num(3000)>>>>)

\* the places where a call of the run can raise: a step, and for a rendering
\* step the number of its elements (7, 12, 3 and 5) rendered before the call
FaultPoints ==
    {[step |-> s, k |-> 0] :
        s \in {"read", "parse", "normalize", "merge", "derive", "best_cpi", "best_conv"}}
    \cup {[step |-> "summary", k |-> k] : k \in 0..6}
    \cup {[step |-> "charts", k |-> k] : k \in 0..(Len(ChartEls) - 1)}
    \cup {[step |-> "table", k |-> k] : k \in 0..(Len(TableEls) - 1)}
    \cup {[step |-> "insights", k |-> k] : k \in 0..4}

\* dates: one table with up to MaxRows rows of any date text, repeated days
\* and times of day included
FamDates ==
    {<<i, a, s, NoFault>> :
        i \in Tables(IosPlain, MaxRows, RawDates, {1}),
        a \in Tables(AndroidPlain, 1, RawDates, {1}),
        s \in Tables(SpendExample, 1, RawDates, {1})}
    \cup
    {<<i, a, s, NoFault>> :
        i \in Tables(IosPlain, 1, RawDates, {1}),
        a \in Tables(AndroidPlain, 0, RawDates, {1}),
        s \in Tables(SpendExample, MaxRows, RawDates, {1})}

\* values: one row per day in any order, every cell over Vals
FamRatios ==
    {<<i, a, s, NoFault>> :
        i \in {f \in Tables(IosPlain, MaxRows, Midnights, Vals) : DistinctDates(f, 1)},
        a \in Tables(AndroidPlain, 1, {0}, Vals),
        s \in {f \in Tables(SpendExample, MaxRows, Midnights, Vals) : DistinctDates(f, 1)}}

\* column names: every header of one source, at most one row per table
FamColumns ==
    {<<i, a, s, NoFault>> :
        i \in TablesOver({IosPlain, IosExample, IosMulti, IosInstallDate}, 1, {0}, Vals),
        a \in Tables(AndroidPlain, 1, {0}, Vals),
        s \in Tables(SpendExample, 1, Midnights, Vals)}
    \cup
    {<<i, a, s, NoFault>> :
        i \in Tables(IosPlain, 1, {0}, Vals),
        a \in TablesOver({AndroidPlain, AndroidExample, AndroidKyc}, 1, {0}, Vals),
        s \in Tables(SpendExample, 1, Midnights, Vals)}
    \cup
    {<<i, a, s, NoFault>> :
        i \in Tables(IosPlain, 1, {0}, Vals),
        a \in Tables(AndroidExample, 1, {0}, Vals),
        s \in TablesOver({SpendExample, SpendBonus, SpendNoSpendCol, SpendKycCalls,
                          SpendClash}, 1, Midnights, Vals)}

\* the worked example, and files that are missing, are no CSV or have no date column
FamMissing ==
    {<<i, a, s, NoFault>> :
        i \in {NoFile, NotCsv, ExampleIos, Csv(IosNoDate, <<<<Text(0), Num(1)>>>>)},
        a \in {NoFile, NotCsv, ExampleAndroid, Csv(AndroidNoDate, <<<<Text(0), Num(1)>>>>)},
        s \in {NoFile, NotCsv, ExampleSpend, Csv(SpendNoDate, <<<<Text(0), Num(1)>>>>)}}

\* the worked example with one call raising
FamFaults ==
    {<<ExampleIos, ExampleAndroid, ExampleSpend, f>> : f \in FaultPoints}

Scenarios == FamDates \cup FamRatios \cup FamColumns \cup FamMissing \cup FamFaults

Init ==
    /\ \E in \in Scenarios :
        /\ ios_file = in[1]
        /\ android_file = in[2]
        /\ spend_file = in[3]
        /\ fault = in[4]
    /\ pc = "start"
    /\ ios_df = EmptyDf /\ android_df = EmptyDf /\ spend_df = EmptyDf
    /\ ios_date_col = None /\ android_date_col = None /\ spend_date_col = None
    /\ combined_df = EmptyDf
    /\ best_cpi_date = Unset /\ best_cpi_val = NaN
    /\ best_conv_date = Unset /\ best_conv_val = NaN
    /\ page = PageHead

Spec == Init /\ [][Next]_vars

-----------------------------------------------------------------------------
(* Vocabulary of the properties *)

\* the cell of row r in the column called name
Val(df, r, name) == df.rows[r][ColIdx(df, name)]

\* the run got past metric derivation
Derived == HasCol(combined_df, S_cpi)

\* the merge has run and derivation has not
Merged == pc = "derive"

\* the three uploads are CSV files and no call of the run raises
CleanRun ==
    /\ fault = NoFault
    /\ ios_file.readable /\ android_file.readable /\ spend_file.readable

\* the calendar days a file's parseable date cells fall on
FileDays(f) ==
    LET pos == Min(possible_date_cols(safe_read_csv(f)))
    IN  {f.rows[r][pos][1] - (f.rows[r][pos][1] % DayLen) :
            r \in {q \in 1..Len(f.rows) : f.rows[q][pos][1] >= 0}}

\* the Date column of the combined table, as timestamps
CombinedDays == [r \in 1..Len(combined_df.rows) |-> Val(combined_df, r, S_Date)[1]]

\* some uploaded table repeats a calendar day
RepeatsDay(f) ==
    LET pos == Min(possible_date_cols(safe_read_csv(f)))
    IN  \E a, b \in 1..Len(f.rows) :
            /\ a # b
            /\ f.rows[a][pos][1] >= 0 /\ f.rows[b][pos][1] >= 0
            /\ f.rows[a][pos][1] \div DayLen = f.rows[b][pos][1] \div DayLen

-----------------------------------------------------------------------------
(* C1 *)

\* C1: after the merge step the combined table's DateKeys are exactly the
\* union of the parseable DateKeys of the three inputs, each DateKey is in
\* exactly one row, and the rows are in ascending DateKey order; inputs in
\* which one source has several rows for the same day are included.
C1_OneRowPerDateKey ==
    Merged =>
        /\ RangeOf(CombinedDays)
             = FileDays(ios_file) \cup FileDays(android_file) \cup FileDays(spend_file)
        /\ \A a, b \in 1..Len(CombinedDays) : a < b => CombinedDays[a] < CombinedDays[b]

-----------------------------------------------------------------------------
(* C2 *)

SumColumns == {S_ios_installs, S_android_installs, S_ios_kyc, S_android_kyc,
               S_ios_otp, S_android_otp, S_total_installs, S_total_kyc, S_total_otp}

\* C2: applying the per-platform sums and totals a second time to an
\* already-derived combined table yields the same values in every row for
\* each of the nine derived columns.
C2_DeriveSumsIdempotent ==
    Derived =>
        \A name \in SumColumns :
            Series(DeriveSums(combined_df), name) = Series(combined_df, name)

-----------------------------------------------------------------------------
(* C3 *)

\* the merged table before derivation, recomputed from the prepared frames
MergedFrame == MergeAll(ios_df, android_df, spend_df)

\* positions, in the merged table, of the non-date columns of the iOS upload
\* whose uploaded name contains metric case-insensitively
IosSourceCols(metric) ==
    {i \in 1..Len(ios_df.columns) :
        /\ ios_df.columns[i] # S_Date
        /\ contains(metric, lower(ios_file.columns[i]))}

\* the same for the Android upload, whose columns follow those of the iOS upload
AndroidSourceCols(metric) ==
    {Len(ios_df.columns) + j - (IF j > ColIdx(android_df, S_Date) THEN 1 ELSE 0) :
        j \in {i \in 1..Len(android_df.columns) :
                /\ android_df.columns[i] # S_Date
                /\ contains(metric, lower(android_file.columns[i]))}}

MetricPairs == {<<S_ios_installs, S_ios, S_install>>, <<S_ios_kyc, S_ios, S_kyc>>,
                <<S_ios_otp, S_ios, S_otp>>,
                <<S_android_installs, S_android, S_install>>,
                <<S_android_kyc, S_android, S_kyc>>, <<S_android_otp, S_android, S_otp>>}

SourceCols(platform, metric) ==
    IF platform = S_ios THEN IosSourceCols(metric) ELSE AndroidSourceCols(metric)

\* C3: for every platform, metric and row, the derived value equals the sum
\* of the row's values over all columns of that platform's uploaded table
\* whose name contains the metric (0 when there is none), whatever the
\* source columns are called.
C3_MetricIsSumOfSourceColumns ==
    Derived =>
        \A pm \in MetricPairs :
            Series(combined_df, pm[1]) = SumAxis1(MergedFrame, SourceCols(pm[2], pm[3]))

-----------------------------------------------------------------------------
(* C4 *)

IsExample ==
    /\ ios_file = ExampleIos /\ android_file = ExampleAndroid
    /\ spend_file = ExampleSpend /\ fault = NoFault

\* C4: the worked example yields one combined row with total_installs 150,
\* total_kyc 50, install-to-KYC 50/150*100 and cost per install 20.
C4_WorkedExample ==
    (IsExample /\ Derived) =>
        /\ Len(combined_df.rows) = 1
        /\ Val(combined_df, 1, S_total_installs) = Num(150)
        /\ Val(combined_df, 1, S_total_kyc) = Num(50)
        /\ Val(combined_df, 1, S_install_to_kyc) = <<100, 3>>
        /\ Val(combined_df, 1, S_cpi) = Num(20)

-----------------------------------------------------------------------------
(* C5 *)

\* the row that the best-CPI insight names has a defined cpi
BestCpiRowDefined ==
    best_cpi_date \in {Unset, NA}
    \/ \E r \in 1..Len(combined_df.rows) :
          /\ strftime(Val(combined_df, r, S_Date)) = best_cpi_date
          /\ ~isna(Val(combined_df, r, S_cpi))
          /\ Val(combined_df, r, S_cpi) = best_cpi_val

IsProcessingError(el) == el.kind = "error" /\ el.label = "Error processing files"

NoProcessingError == \A i \in 1..Len(page) : ~IsProcessingError(page[i])

\* C5: in every combined row with total_installs = 0, install_to_kyc and
\* install_to_otp are 0 and cpi is undefined (NaN, not 0); in every row with
\* total_kyc = 0, kyc_to_otp is 0; a row with undefined cpi is never the
\* best-CPI day; and a run in which no call raises reports no processing
\* error, zero denominators included.
C5_ZeroDenominators ==
    /\ Derived =>
         \A r \in 1..Len(combined_df.rows) :
            /\ Val(combined_df, r, S_total_installs) = Num(0) =>
                  /\ Val(combined_df, r, S_install_to_kyc) = Num(0)
                  /\ Val(combined_df, r, S_install_to_otp) = Num(0)
                  /\ isna(Val(combined_df, r, S_cpi))
            /\ Val(combined_df, r, S_total_kyc) = Num(0) =>
                  Val(combined_df, r, S_kyc_to_otp) = Num(0)
    /\ Derived => BestCpiRowDefined
    /\ CleanRun => NoProcessingError

\* a finished run with a zero-install day next to a day that has installs,
\* and a day with OTPs but no KYC
C5_Witness ==
    /\ pc = "done" /\ CleanRun /\ Derived
    /\ best_cpi_date \notin {Unset, NA}
    /\ \E r \in 1..Len(combined_df.rows) :
          /\ Val(combined_df, r, S_total_installs) = Num(0)
          /\ Val(combined_df, r, S_Spends) # Num(0)
          /\ isna(Val(combined_df, r, S_cpi))

-----------------------------------------------------------------------------
(* C6 *)

SpendOnlyDays ==
    FileDays(spend_file) \ (FileDays(ios_file) \cup FileDays(android_file))

\* the values the Spend table holds, in its spend column, for day d
SpendValuesOn(d) ==
    {Val(spend_df, q, S_Spends) :
        q \in {x \in 1..Len(spend_df.rows) : Val(spend_df, x, S_Date) = Num(d)}}

\* C6: for every date in the Spend table that is in neither the iOS nor the
\* Android table, the combined table has a row for that date with the Spend
\* table's value, all six platform metrics and the three totals 0 and cpi
\* undefined; and the run does not fail.
C6_SpendOnlyDate ==
    /\ CleanRun => NoProcessingError
    /\ Derived =>
         \A d \in SpendOnlyDays :
            \E r \in 1..Len(combined_df.rows) :
                /\ Val(combined_df, r, S_Date) = Num(d)
                /\ Val(combined_df, r, S_Spends) \in SpendValuesOn(d)
                /\ \A name \in SumColumns : Val(combined_df, r, name) = Num(0)
                /\ isna(Val(combined_df, r, S_cpi))

-----------------------------------------------------------------------------
(* C7 *)

\* the rows of the combined table whose cpi is defined
DefinedCpiRows == {r \in 1..Len(combined_df.rows) : ~isna(Val(combined_df, r, S_cpi))}

\* the rows holding the least defined cpi
MinCpiRows ==
    {r \in DefinedCpiRows :
        \A q \in DefinedCpiRows :
            ~FloatLess(Val(combined_df, q, S_cpi), Val(combined_df, r, S_cpi))}

\* the best-CPI lookup of this run has run, and did not raise
CpiLookupDone == pc = "done" /\ best_cpi_date # Unset /\ ~Raises("best_cpi")

\* C7: the best-CPI day is the row with the minimum cpi among the rows whose
\* cpi is defined; among several rows with that minimum the earliest date is
\* selected; with no defined cpi (an empty table included) the result is
\* date N/A with an undefined value.
C7_BestCpiDay ==
    CpiLookupDone =>
        IF DefinedCpiRows = {}
        THEN best_cpi_date = NA /\ isna(best_cpi_val)
        ELSE /\ \E r \in MinCpiRows : best_cpi_val = Val(combined_df, r, S_cpi)
             /\ best_cpi_date =
                  <<"ymd", Min({Val(combined_df, r, S_Date)[1] : r \in MinCpiRows}) \div DayLen>>

\* two days share the minimum cpi and the earlier one is reported
C7_Witness ==
    /\ CpiLookupDone
    /\ \E a, b \in MinCpiRows :
          /\ Val(combined_df, a, S_Date)[1] < Val(combined_df, b, S_Date)[1]
          /\ best_cpi_date = strftime(Val(combined_df, a, S_Date))

\* no row has a defined cpi and the lookup answers N/A
C7_WitnessNone ==
    CpiLookupDone /\ DefinedCpiRows = {} /\ best_cpi_date = NA

-----------------------------------------------------------------------------
(* C8 *)

AllPresent == ios_file.present /\ android_file.present /\ spend_file.present

AllReadable == ios_file.readable /\ android_file.readable /\ spend_file.readable

\* the run has ended and one of its steps failed
FailedRun == pc = "done" /\ AllPresent /\ (fault # NoFault \/ ~AllReadable)

\* the failure is one the try / except of a lookup handles itself
LookupFault == AllReadable /\ fault.step \in {"best_cpi", "best_conv"}

\* the page ends with the generic error and the hint
EndsWithProcessingError ==
    /\ Len(page) >= 2
    /\ IsProcessingError(page[Len(page) - 1])
    /\ page[Len(page)].kind = "info"
    /\ page[Len(page)].label = "Please ensure your CSV files have a Date column"

\* elements of the pipeline's output, as opposed to the page head and the messages
IsOutput(el) == el.kind \in {"header", "metric", "plotly_chart", "dataframe",
                             "success", "warning"}

\* the number of elements the run rendered before the failing call
RenderedBefore ==
    IF ~AllReadable THEN 0
    ELSE CASE fault.step = "summary" -> fault.k
           [] fault.step = "charts" -> Len(SummaryEls(combined_df)) + fault.k
           [] fault.step = "table" ->
                Len(SummaryEls(combined_df)) + Len(ChartEls) + fault.k
           [] fault.step = "insights" ->
                Len(SummaryEls(combined_df)) + Len(ChartEls) + Len(TableEls) + fault.k
           [] OTHER -> 0

\* C8 as stated: a failure at any step is reported as the generic processing
\* error with the hint, and nothing an earlier step of the run produced
\* (metrics header, metric, chart, table) has been rendered.
C8_NoPartialOutput ==
    FailedRun =>
        /\ EndsWithProcessingError
        /\ \A i \in 1..Len(page) : ~IsOutput(page[i])

\* C8 amended: a failure outside the two insight lookups is caught at the
\* top level and reported as the generic processing error followed by the
\* hint, once, after everything the run rendered before the failing call,
\* which stays on the page; a failure inside an insight lookup is caught by
\* the lookup, yields N/A and reports no processing error.
C8_CaughtAfterRenderedOutput ==
    FailedRun =>
        IF LookupFault
        THEN /\ NoProcessingError
             /\ fault.step = "best_cpi" => best_cpi_date = NA /\ isna(best_cpi_val)
             /\ fault.step = "best_conv" => best_conv_date = NA /\ isna(best_conv_val)
        ELSE /\ EndsWithProcessingError
             /\ Len(page) = Len(PageHead) + RenderedBefore + 2
             /\ \A i \in 1..(Len(page) - 2) : page[i].kind # "error"
             /\ RenderedBefore >= 2 =>
                   page[Len(PageHead) + 2].label = "Key Performance Metrics"

\* a chart raised after the summary was rendered: the metrics are on the
\* page, followed by the processing error
C8_Witness ==
    /\ FailedRun /\ fault.step = "charts" /\ EndsWithProcessingError
    /\ \E i \in 1..Len(page) : page[i].kind = "metric"

-----------------------------------------------------------------------------
(* C9 *)

\* the uploaded table has a column whose name contains 'date', in any case
HasDateColumn(f) == \E i \in 1..Len(f.columns) : contains(S_date, lower(f.columns[i]))

\* all three tables were read and one of them has no date column
MissingDate ==
    /\ AllPresent /\ AllReadable
    /\ fault.step \notin {"read", "parse"}
    /\ ~HasDateColumn(ios_file) \/ ~HasDateColumn(android_file)
         \/ ~HasDateColumn(spend_file)

\* the frame is as parse_date_col returned it: no column renamed or prefixed
Unprepared(df, f) == df.columns = None \/ df.columns = safe_read_csv(f).columns

\* C9: when one of the three tables has no column whose name contains
\* 'date', the run reports the missing-Date-column error and stops before
\* any renaming, merge, derivation or rendering, and the generic processing
\* error is not shown.
C9_MissingDateColumn ==
    MissingDate =>
        /\ pc \in {"start", "read", "parse", "stopped"}
        /\ NoProcessingError
        /\ pc = "stopped" =>
              /\ Len(page) = Len(PageHead) + 1
              /\ page[Len(page)].kind = "error"
              /\ page[Len(page)].label = "Couldn't find a Date column in one of the files"
              /\ combined_df = EmptyDf
              /\ Unprepared(ios_df, ios_file)
              /\ Unprepared(android_df, android_file)
              /\ Unprepared(spend_df, spend_file)

\* the run stopped on a table without a date column while another table has one
C9_Witness ==
    /\ pc = "stopped" /\ MissingDate
    /\ HasDateColumn(ios_file) /\ ~HasDateColumn(spend_file)

-----------------------------------------------------------------------------
(* C10 *)

\* the Spend frame reduced to its Date and Spends columns
SpendCore(df) ==
    [columns |-> <<S_Date, S_Spends>>,
     rows |-> [r \in 1..Len(df.rows) |-> <<Val(df, r, S_Date), Val(df, r, S_Spends)>>]]

\* C10: the platform metrics and the totals of every row are those the same
\* iOS and Android tables give with a Spend table that has no extra column:
\* names and values of extra Spend columns change no platform metric or total.
C10_SpendColumnsDoNotLeak ==
    Derived =>
        \A name \in SumColumns :
            Series(combined_df, name)
              = Series(DeriveSums(MergeAll(ios_df, android_df, SpendCore(spend_df))), name)

====
